---- MODULE Spec2Model ----
(***************************************************************************)
(* NIFTY-50 alert bot (src/nifty_alerts.py): the signal computation        *)
(* (compute_signals over the RSI/EMA columns of a bar series) and the      *)
(* polling cycles around it (job, ema_status_alert, the data fetch with    *)
(* its Yahoo fallback, the token refresh, the holiday cache, send_alert).  *)
(*                                                                         *)
(* Numbers.  The program computes on float64 columns.  The model computes  *)
(* the same recurrences on exact rationals [nan, num, den] kept in lowest  *)
(* terms (den > 0); NaN is the value with nan = TRUE, and every comparison *)
(* with a NaN operand is FALSE, as in pandas.                              *)
(***************************************************************************)
EXTENDS Integers, Sequences, FiniteSets, TLC

VARIABLES
    df,              \* the DataFrame handed to compute_signals: close + added columns
    signals,         \* what compute_signals returned in the last operation
    sink,            \* messages passed to send_alert during the last operation
    DEBUG_MODE,      \* cfg["debug_mode"]
    WHATSAPP_URL,    \* cfg["whatsapp_url"] is set (TRUE) or '' (FALSE), line 36
    EMAIL_WEBHOOK,   \* cfg["email_webhook"] is set (TRUE) or '' (FALSE), line 37
    ACCESS_TOKEN,    \* module global, line 34
    REFRESH_TOKEN,   \* module global, line 35
    cfg,             \* the in-memory config dict (its token fields)
    cfgFile,         \* the tokens persisted in config.json
    last_holidays,   \* _last_holidays: [date, list]
    today,           \* the calendar day of the next cycle (day 0 is a Monday)
    statusRan,       \* the 10:00 job of `today` has run
    alive,           \* FALSE once an exception has escaped to the top level
    cycle            \* trace of the last polling cycle

vars == <<df, signals, sink, DEBUG_MODE, WHATSAPP_URL, EMAIL_WEBHOOK,
          ACCESS_TOKEN, REFRESH_TOKEN, cfg, cfgFile, last_holidays, today,
          statusRan, alive, cycle>>

-----------------------------------------------------------------------------
(* Program constants.                                                      *)

LOOKBACK == 90
RSI_WINDOW == 14
EMA_FAST == 5
EMA_SLOW == 21
JOB_MIN_BARS == 50
STATUS_MIN_BARS == 21
HOLIDAY_CACHE_DAYS == 7
WEEKEND_START == 5
\* _last_holidays["date"] = None, line 49
NoDate == -1
\* no token: what cfg.get("access_token", "") reads from a config without
\* one, line 34
NoToken == -1

(* Bounds of the model.                                                    *)

\* longest series the signal harness builds
MaxBars == 106
\* bars may differ from the first bar only within the last MaxTail bars
MaxTail == 2

\* the closing price the varying series start at
BaseClose == 10
\* first and last calendar day of the model: a Thursday and the Friday
\* after it, a trading holiday
StartDay == 3
MaxDay == 4
\* last date the holiday harness passes to is_market_holiday
MaxDate == 14
\* answers of the feed within one call of get_data_fyers that the model
\* follows
MaxRounds == 2
\* tokens the refresh endpoint grants
MaxToken == 2
\* calls of compute_signals the repeated-call harness makes on one frame
MaxCalls == 2

\* closing prices a bar may take
Closes == {BaseClose - 1, BaseClose, BaseClose + 2}

-----------------------------------------------------------------------------
(* Exact arithmetic standing for float64.                                  *)

Abs(n) == IF n < 0 THEN -n ELSE n

RECURSIVE GCD(_, _)
GCD(a, b) == IF b = 0 THEN a ELSE GCD(b, a % b)

NaN == [nan |-> TRUE, num |-> 0, den |-> 1]

Rat(n, d) ==
    LET g == GCD(Abs(n), d)
    IN  [nan |-> FALSE, num |-> n \div g, den |-> d \div g]

FromInt(n) == [nan |-> FALSE, num |-> n, den |-> 1]

RAdd(a, b) ==
    IF a.nan \/ b.nan THEN NaN
    ELSE LET g == GCD(a.den, b.den)
         IN  Rat(a.num * (b.den \div g) + b.num * (a.den \div g),
                 (a.den \div g) * b.den)

RNeg(a) == IF a.nan THEN NaN ELSE [nan |-> FALSE, num |-> -a.num, den |-> a.den]

RSub(a, b) == RAdd(a, RNeg(b))

RMul(a, b) ==
    IF a.nan \/ b.nan THEN NaN
    ELSE LET g1 == GCD(Abs(a.num), b.den)
             g2 == GCD(Abs(b.num), a.den)
         IN  Rat((a.num \div g1) * (b.num \div g2),
                 (a.den \div g2) * (b.den \div g1))

\* a / b for b # 0 (the one division of the program, in the RSI, is
\* guarded by emadn == 0)
RDiv(a, b) ==
    IF a.nan \/ b.nan THEN NaN
    ELSE RMul(a, IF b.num < 0
                 THEN [nan |-> FALSE, num |-> -b.den, den |-> -b.num]
                 ELSE [nan |-> FALSE, num |-> b.den, den |-> b.num])

\* float comparisons: FALSE as soon as one side is NaN
Gt(a, b) == ~a.nan /\ ~b.nan /\ a.num * b.den > b.num * a.den
Lt(a, b) == Gt(b, a)
Ge(a, b) == ~a.nan /\ ~b.nan /\ a.num * b.den >= b.num * a.den
Le(a, b) == Ge(b, a)

-----------------------------------------------------------------------------
(* pandas column operations used by compute_signals and the ta indicators. *)
(* A column is a sequence with one value per bar.                          *)

\* a column given row by row, as the sequence of its values
AsColumn(f) == <<>> \o f

\* a shift that wraps around (numpy.roll) instead of filling with NaN
ShiftRoll(col, k) ==
    AsColumn([i \in 1..Len(col) |-> col[((i - 1 - k) % Len(col)) + 1]])

\* Series.shift(k): row i takes the value of row i-k, the first k rows NaN
Shift(col, k) ==
    AsColumn([i \in 1..Len(col) |-> IF i - k >= 1 THEN col[i - k] ELSE NaN])

\* Series.diff(1)
Diff(col) ==
    AsColumn([i \in 1..Len(col) |->
                 IF i = 1 THEN NaN ELSE RSub(col[i], col[i - 1])])

\* one step of Series.ewm(alpha = an/ad, adjust = False).mean():
\* (1 - alpha) * prev + alpha * x, with alpha = an/ad
EwmStep(prev, x, an, ad) ==
    Rat((ad - an) * prev.num * x.den + an * x.num * prev.den,
        ad * prev.den * x.den)

\* the recurrence: y[1] = x[1], y[i] = (1 - alpha) * y[i-1] + alpha * x[i]
\* (no input column of the program holds a NaN after its first row, and
\* the first row of up/down is 0).  Rows lo..hi are appended to acc, which
\* holds rows 1..lo-1, in order; the range is halved, the first half being
\* completed before the second starts, only to keep the evaluation shallow.
RECURSIVE EwmRows(_, _, _, _, _, _)
EwmRows(col, an, ad, lo, hi, acc) ==
    IF lo > hi THEN acc
    ELSE IF lo = hi
    THEN Append(acc, IF lo = 1 THEN col[1]
                     ELSE EwmStep(acc[lo - 1], col[lo], an, ad))
    ELSE LET mid  == (lo + hi) \div 2
             left == EwmRows(col, an, ad, lo, mid, acc)
         IN  IF Len(left) = mid
             THEN EwmRows(col, an, ad, mid + 1, hi, left)
             ELSE left

EwmRaw(col, an, ad) == EwmRows(col, an, ad, 1, Len(col), <<>>)

\* Series.ewm(alpha = an/ad, min_periods = minp, adjust = False).mean():
\* a row is NaN until minp observations have been seen
Ewm(col, an, ad, minp) ==
    LET raw == EwmRaw(col, an, ad)
    IN  AsColumn([i \in 1..Len(col) |-> IF i >= minp THEN raw[i] ELSE NaN])

\* ta.trend.EMAIndicator(close, window).ema_indicator(), fillna = False:
\* close.ewm(span = window, min_periods = window, adjust = False).mean()
EMAIndicator(close, window) == Ewm(close, 2, window + 1, window)

\* an RSI that reads 50 where average gain and average loss are both zero
RSIIndicator_neutral(close, window) ==
    LET diff  == Diff(close)
        zero  == FromInt(0)
        up    == AsColumn([i \in 1..Len(close) |->
                     IF Gt(diff[i], zero) THEN diff[i] ELSE zero])
        down  == AsColumn([i \in 1..Len(close) |->
                     IF Lt(diff[i], zero) THEN RNeg(diff[i]) ELSE zero])
        emaup == Ewm(up, 1, window, window)
        emadn == Ewm(down, 1, window, window)
    IN  AsColumn([i \in 1..Len(close) |->
            IF emadn[i].nan THEN NaN
            ELSE IF emadn[i].num = 0 /\ emaup[i].num = 0 THEN FromInt(50)
            ELSE IF emadn[i].num = 0 THEN FromInt(100)
            ELSE RSub(FromInt(100),
                      RDiv(FromInt(100),
                           RAdd(FromInt(1), RDiv(emaup[i], emadn[i]))))])

\* ta.momentum.RSIIndicator(close, window).rsi(), fillna = False: the
\* gains and losses of close.diff(1), each smoothed by
\* ewm(alpha = 1/window, min_periods = window, adjust = False).mean(), and
\* np.where(emadn == 0, 100, 100 - 100 / (1 + emaup / emadn))
RSIIndicator(close, window) ==
    LET diff  == Diff(close)
        zero  == FromInt(0)
        up    == AsColumn([i \in 1..Len(close) |->
                     IF Gt(diff[i], zero) THEN diff[i] ELSE zero])
        down  == AsColumn([i \in 1..Len(close) |->
                     IF Lt(diff[i], zero) THEN RNeg(diff[i]) ELSE zero])
        emaup == Ewm(up, 1, window, window)
        emadn == Ewm(down, 1, window, window)
    IN  AsColumn([i \in 1..Len(close) |->
            IF emadn[i].nan THEN NaN
            ELSE IF emadn[i].num = 0 THEN FromInt(100)
            ELSE RSub(FromInt(100),
                      RDiv(FromInt(100),
                           RAdd(FromInt(1), RDiv(emaup[i], emadn[i]))))])

-----------------------------------------------------------------------------
(* Alert delivery.                                                         *)

\* what the two webhooks do during one call of send_alert: both answer,
\* the WhatsApp GET raises, or the e-mail POST raises
Nets == {"up", "whatsapp_down", "email_down"}

\* send_alert(msg), lines 188-198: the WhatsApp GET if WHATSAPP_URL is set,
\* then the e-mail POST if EMAIL_WEBHOOK is set, in one try block: a GET
\* that raises skips the POST, and no exception leaves send_alert.
send_alert(msg, whatsapp_url, email_webhook, net) ==
    LET get_raised == whatsapp_url /\ net = "whatsapp_down"
    IN  [msg      |-> msg,
         whatsapp |-> whatsapp_url /\ ~get_raised,
         email    |-> email_webhook /\ ~get_raised /\ net # "email_down"]

\* send_alert on each message of a list, in order; nets[i] is what the
\* webhooks do during the i-th call
Deliver(msgs, whatsapp_url, email_webhook, nets) ==
    AsColumn([i \in 1..Len(msgs) |->
        send_alert(msgs[i], whatsapp_url, email_webhook, nets[i])])

\* what the calls of send_alert on a list of messages can leave, over
\* all the webhooks can do during each call
Deliveries(msgs, whatsapp_url, email_webhook) ==
    {Deliver(msgs, whatsapp_url, email_webhook, nets) :
        nets \in [1..Len(msgs) -> Nets]}

-----------------------------------------------------------------------------
(* Signal computation.                                                     *)

BULL_CROSS == "EMA Bullish Cross"
BEAR_CROSS == "EMA Bearish Cross"
BULL_DIV   == "Bullish RSI Divergence"
BEAR_DIV   == "Bearish RSI Divergence"

\* a DataFrame holding the fetched bars only
Frame(close) ==
    [close |-> close, rsi |-> <<>>, ema5 |-> <<>>, ema21 |-> <<>>,
     ema_bull |-> <<>>, ema_bear |-> <<>>, bull_div |-> <<>>, bear_div |-> <<>>]

CloseCol(d) == AsColumn([i \in 1..Len(d.close) |-> FromInt(d.close[i])])

\* line 164 without its previous-bar condition
ema_bull_no_cross(ema5, ema21) ==
    AsColumn([i \in 1..Len(ema5) |-> Gt(ema5[i], ema21[i])])

\* line 164
ema_bull(ema5, ema21) ==
    LET prev5  == Shift(ema5, 1)
        prev21 == Shift(ema21, 1)
    IN  AsColumn([i \in 1..Len(ema5) |->
            Gt(ema5[i], ema21[i]) /\ Le(prev5[i], prev21[i])])

\* line 165 as an unedited copy of the comparison of line 164
ema_bear_copied(ema5, ema21) ==
    LET prev5  == Shift(ema5, 1)
        prev21 == Shift(ema21, 1)
    IN  AsColumn([i \in 1..Len(ema5) |->
            Gt(ema5[i], ema21[i]) /\ Ge(prev5[i], prev21[i])])

\* line 165
ema_bear(ema5, ema21) ==
    LET prev5  == Shift(ema5, 1)
        prev21 == Shift(ema21, 1)
    IN  AsColumn([i \in 1..Len(ema5) |->
            Lt(ema5[i], ema21[i]) /\ Ge(prev5[i], prev21[i])])

\* line 166
bull_div(close, rsi) ==
    LET oldClose == Shift(close, LOOKBACK)
        oldRsi   == Shift(rsi, LOOKBACK)
    IN  AsColumn([i \in 1..Len(close) |->
            Lt(close[i], oldClose[i]) /\ Gt(rsi[i], oldRsi[i])])

\* line 167
bear_div(close, rsi) ==
    LET oldClose == Shift(close, LOOKBACK)
        oldRsi   == Shift(rsi, LOOKBACK)
    IN  AsColumn([i \in 1..Len(close) |->
            Gt(close[i], oldClose[i]) /\ Lt(rsi[i], oldRsi[i])])

\* lines 160-162 smoothing on from the columns an earlier call left in
\* the frame: where the frame holds an EMA already, the new EMA is fed the
\* old one instead of the close
WithIndicators_carried(d) ==
    LET fed(old) == AsColumn([i \in 1..Len(d.close) |->
                        IF i <= Len(old) /\ ~old[i].nan THEN old[i]
                        ELSE FromInt(d.close[i])])
        d1 == [d EXCEPT !.rsi = RSIIndicator(CloseCol(d), RSI_WINDOW)]
        d2 == [d1 EXCEPT !.ema5 = EMAIndicator(fed(d.ema5), EMA_FAST)]
    IN  [d2 EXCEPT !.ema21 = EMAIndicator(fed(d.ema21), EMA_SLOW)]

\* lines 160-162: the three indicator columns, each computed from
\* df["close"] and assigned to df in turn
WithIndicators(d) ==
    LET d1 == [d EXCEPT !.rsi = RSIIndicator(CloseCol(d), RSI_WINDOW)]
        d2 == [d1 EXCEPT !.ema5 = EMAIndicator(CloseCol(d), EMA_FAST)]
    IN  [d2 EXCEPT !.ema21 = EMAIndicator(CloseCol(d), EMA_SLOW)]

\* lines 164-167: the four flag columns, each computed from the columns
\* df holds by then and assigned to df in turn
WithFlags(d) ==
    LET d1 == [d EXCEPT !.ema_bull = ema_bull(d.ema5, d.ema21)]
        d2 == [d1 EXCEPT !.ema_bear = ema_bear(d.ema5, d.ema21)]
        d3 == [d2 EXCEPT !.bull_div = bull_div(CloseCol(d), d.rsi)]
    IN  [d3 EXCEPT !.bear_div = bear_div(CloseCol(d), d.rsi)]

\* lines 160-167: the seven columns compute_signals writes into df
WithColumns(d) == WithFlags(WithIndicators(d))

\* df.iloc[-1]
LastRow(d) == Len(d.close)

\* lines 170-174 reading the first row (df.iloc[0]) instead of the last
SignalList_first_row(d) ==
    (IF d.ema_bull[1] THEN <<BULL_CROSS>> ELSE <<>>)
    \o (IF d.ema_bear[1] THEN <<BEAR_CROSS>> ELSE <<>>)
    \o (IF d.bull_div[1] THEN <<BULL_DIV>> ELSE <<>>)
    \o (IF d.bear_div[1] THEN <<BEAR_DIV>> ELSE <<>>)

\* lines 170-174 with the divergences appended before the crossovers
SignalList_divs_first(d) ==
    LET last == LastRow(d)
    IN  (IF d.bull_div[last] THEN <<BULL_DIV>> ELSE <<>>)
        \o (IF d.bear_div[last] THEN <<BEAR_DIV>> ELSE <<>>)
        \o (IF d.ema_bull[last] THEN <<BULL_CROSS>> ELSE <<>>)
        \o (IF d.ema_bear[last] THEN <<BEAR_CROSS>> ELSE <<>>)

\* lines 170-174
SignalList(d) ==
    LET last == LastRow(d)
    IN  (IF d.ema_bull[last] THEN <<BULL_CROSS>> ELSE <<>>)
        \o (IF d.ema_bear[last] THEN <<BEAR_CROSS>> ELSE <<>>)
        \o (IF d.bull_div[last] THEN <<BULL_DIV>> ELSE <<>>)
        \o (IF d.bear_div[last] THEN <<BEAR_DIV>> ELSE <<>>)

\* lines 177-178 with diff >= 0 as the test
Trend_ge(d) ==
    LET last == LastRow(d)
        diff == RSub(d.ema5[last], d.ema21[last])
    IN  IF Ge(diff, FromInt(0)) THEN "Bullish" ELSE "Bearish"

\* lines 177-178: trend of the debug status line
Trend(d) ==
    LET last == LastRow(d)
        diff == RSub(d.ema5[last], d.ema21[last])
    IN  IF Gt(diff, FromInt(0)) THEN "Bullish" ELSE "Bearish"

INSUFFICIENT == <<"InsufficientHistory">>

\* compute_signals with the length check the callers do, reporting a
\* typed failure
compute_signals_checked(d, debug) ==
    IF Len(d.close) < JOB_MIN_BARS
    THEN [df |-> d, signals |-> INSUFFICIENT, sent |-> <<>>]
    ELSE LET d2 == WithColumns(d)
         IN  [df      |-> d2,
              signals |-> SignalList(d2),
              sent    |-> IF debug THEN <<"EMA Status: " \o Trend(d2)>>
                          ELSE <<>>]

\* compute_signals sending its status line whatever the debug flag
compute_signals_always_sends(d, debug) ==
    LET d2 == WithColumns(d)
    IN  [df      |-> d2,
         signals |-> SignalList(d2),
         sent    |-> <<"EMA Status: " \o Trend(d2)>>]

\* lines 164-183 of compute_signals, on the frame as lines 160-162 left
\* it: the flag columns, the list of the flags set on the last row, and
\* the status line passed to send_alert in debug mode
signal_lines(d, debug) ==
    LET d2 == WithFlags(d)
    IN  [df      |-> d2,
         signals |-> SignalList(d2),
         sent    |-> IF debug THEN <<"EMA Status: " \o Trend(d2)>> ELSE <<>>]

\* compute_signals(df): the frame with its new columns, the returned list,
\* and the messages it passes to send_alert itself (the status line, in
\* debug mode)
compute_signals(d, debug) == signal_lines(WithIndicators(d), debug)

-----------------------------------------------------------------------------
(* State shared by the specifications.                                     *)

NoResult == <<"not called">>
Idle == [op |-> "none", primary |-> "none", fallback |-> "none", bars |-> 0,
         computed |-> FALSE, raised |-> FALSE, date |-> StartDay,
         rounds |-> 0]

InitTokens ==
    /\ ACCESS_TOKEN = 0
    /\ REFRESH_TOKEN = 0
    /\ cfg = [access_token |-> 0, refresh_token |-> 0]
    /\ cfgFile = [access_token |-> 0, refresh_token |-> 0]

\* number of bars from the first bar that differs from bar 1 to the end
VaryingTail(close) ==
    LET moved == {i \in 1..Len(close) : close[i] # close[1]}
    IN  IF moved = {} THEN 0
        ELSE Len(close) + 1 - (CHOOSE i \in moved : \A j \in moved : i <= j)

-----------------------------------------------------------------------------
(* SpecSignals: compute_signals applied to every series of the bounded     *)
(* family (BaseClose repeated, then at most MaxTail bars drawn from        *)
(* Closes), in both debug modes.                                           *)

InitSignals ==
    /\ \E x \in Closes : df = Frame(<<x>>)
    /\ signals = NoResult
    /\ sink = <<>>
    /\ DEBUG_MODE \in BOOLEAN
    \* compute_signals calls send_alert in debug mode only: without it the
    \* two URLs are read by nothing and are fixed
    /\ WHATSAPP_URL \in (IF DEBUG_MODE THEN BOOLEAN ELSE {TRUE})
    /\ EMAIL_WEBHOOK \in (IF DEBUG_MODE THEN BOOLEAN ELSE {TRUE})
    /\ InitTokens
    /\ last_holidays = [date |-> NoDate, list |-> {}]
    /\ today = StartDay
    /\ statusRan = FALSE
    /\ alive = TRUE
    /\ cycle = Idle

\* the feed delivers one more bar: the next call gets a fresh frame
NewBar ==
    \E x \in Closes :
        /\ Len(df.close) < MaxBars
        /\ LET t == VaryingTail(df.close)
           IN  IF t = 0 THEN (df.close[1] = BaseClose \/ x = df.close[1])
               ELSE t < MaxTail
        /\ df' = Frame(Append(df.close, x))
        /\ signals' = NoResult
        /\ sink' = <<>>
        /\ UNCHANGED <<DEBUG_MODE, WHATSAPP_URL, EMAIL_WEBHOOK, ACCESS_TOKEN, REFRESH_TOKEN, cfg, cfgFile,
                       last_holidays, today, statusRan, alive, cycle>>

\* compute_signals(df)
CallComputeSignals ==
    \E r \in {compute_signals(df, DEBUG_MODE)} :
        \E snk \in Deliveries(r.sent, WHATSAPP_URL, EMAIL_WEBHOOK) :
            /\ df' = r.df
            /\ signals' = r.signals
            /\ sink' = snk
            /\ UNCHANGED <<DEBUG_MODE, WHATSAPP_URL, EMAIL_WEBHOOK, ACCESS_TOKEN, REFRESH_TOKEN, cfg, cfgFile,
                           last_holidays, today, statusRan, alive, cycle>>

NextSignals == NewBar \/ CallComputeSignals

SpecSignals == InitSignals /\ [][NextSignals]_vars

-----------------------------------------------------------------------------
(* Market holiday detection.                                               *)

\* datetime.date.weekday(): day 0 of the model is a Monday
Weekday(d) == d % 7

\* the trading holidays the exchange publishes (the "CM" list)
NseHolidays == {4, 11}

\* what requests.get(HOLIDAY_URL) and the parsing of its answer can do:
\* the list, an exception, or a JSON answer without a "CM" entry
HolidayFetches == {"ok", "error", "no_cm"}

\* is_market_holiday(date), lines 51-73
is_market_holiday(date, cache, fetch) ==
    IF Weekday(date) >= WEEKEND_START
    THEN [closed |-> TRUE, cache |-> cache, fetched |-> FALSE]
    ELSE LET stale == \/ cache.date = NoDate
                      \/ date - cache.date >= HOLIDAY_CACHE_DAYS
             cache2 == IF stale /\ fetch = "ok"
                       THEN [date |-> date, list |-> NseHolidays]
                       ELSE IF stale /\ fetch = "no_cm"
                       THEN [date |-> date, list |-> {}]
                       ELSE cache
         IN  [closed |-> date \in cache2.list, cache |-> cache2,
              fetched |-> stale]

-----------------------------------------------------------------------------
(* Token refresh.                                                          *)

\* the token globals, the config dict and the config file, as one value
Tokens ==
    [access |-> ACCESS_TOKEN, refresh |-> REFRESH_TOKEN,
     cfg |-> cfg, file |-> cfgFile]

\* config.json after open(CFG_PATH, "w") truncated it and nothing was
\* written: a file that holds no token
EmptyFile == [access_token |-> NoToken, refresh_token |-> NoToken]

\* what the answer of the refresh endpoint can be: a grant of both tokens,
\* a grant without "refresh_token" (line 91 keeps REFRESH_TOKEN), an answer
\* that is no grant, or a request that raises
RefreshAnswers ==
    {"granted", "granted_access_only", "rejected", "network_error"}

\* what json.dump(cfg, open(CFG_PATH, "w")) at line 95 can do: the file is
\* written; open() raises (open_fails); the file is truncated and a write
\* inside json.dump raises, the config being larger than the buffer of
\* the file object (fails_late); or the file is truncated and the data,
\* still in the buffer when json.dump returns, is lost when the object is
\* dropped, without an exception (lost)
ConfigWrites == {"written", "open_fails", "fails_late", "lost"}

\* the write of a refresh that does not reach line 95
NoWrite == "none"

\* what one call of refresh_fyers_token can meet
RefreshOutcomes ==
    {[answer |-> a, write |-> w] :
        a \in {"granted", "granted_access_only"}, w \in ConfigWrites}
    \cup {[answer |-> a, write |-> NoWrite] :
             a \in {"rejected", "network_error"}}

\* refresh_fyers_token(), lines 78-102; a granted token is a new value
refresh_fyers_token(tk, outcome) ==
    IF outcome.answer \in {"rejected", "network_error"}
    THEN [ok |-> FALSE, tk |-> tk]
    ELSE LET access  == tk.access + 1
             refresh == IF outcome.answer = "granted_access_only"
                        THEN tk.refresh
                        ELSE tk.refresh + 1
             c       == [access_token |-> access, refresh_token |-> refresh]
             file    == IF outcome.write = "written" THEN c
                        ELSE IF outcome.write = "open_fails" THEN tk.file
                        ELSE EmptyFile
         IN  [ok |-> outcome.write \in {"written", "lost"},
              tk |-> [access |-> access, refresh |-> refresh,
                      cfg |-> c, file |-> file]]

-----------------------------------------------------------------------------
(* Data fetch.                                                             *)

\* a fetch result: None, or a DataFrame of bars
NoData == [none |-> TRUE, close |-> <<>>]
Data(close) == [none |-> FALSE, close |-> close]

\* the refresh of an answer that leads to none
NoRefresh == [answer |-> "none", write |-> NoWrite]

\* one answer of fy.history() and, for an invalid token, of the refresh
Attempts ==
    {[resp |-> "candles", refresh |-> NoRefresh],
     [resp |-> "error", refresh |-> NoRefresh]}
    \cup {[resp |-> "invalid_token", refresh |-> o] : o \in RefreshOutcomes}

\* the answer makes get_data_fyers call itself again, lines 121-124
Retries(a) ==
    /\ a.resp = "invalid_token"
    /\ a.refresh.answer \in {"granted", "granted_access_only"}
    /\ a.refresh.write \in {"written", "lost"}

GrantsToken(a) ==
    /\ a.resp = "invalid_token"
    /\ a.refresh.answer \in {"granted", "granted_access_only"}

\* the answers one call of get_data_fyers can meet, up to MaxRounds of
\* them: every answer but the last leads to a retry; when the last one
\* leads to a retry too, the call is in its next round with the answers
\* used up; tokens are granted up to MaxToken
FyersScripts(access) ==
    {sc \in UNION {[1..n -> Attempts] : n \in 1..MaxRounds} :
        /\ \A i \in 1..(Len(sc) - 1) : Retries(sc[i])
        /\ Retries(sc[Len(sc)]) => Len(sc) = MaxRounds
        /\ access + Cardinality({i \in 1..Len(sc) : GrantsToken(sc[i])})
              <= MaxToken}

\* get_data_fyers(), lines 107-132, after depth refresh-and-retry rounds of
\* the same call, on the answers still to come.  The code counts no
\* rounds and sets no limit on them: a call whose answers have all led to
\* a retry has not returned, and the model follows it no further.
RECURSIVE get_data_fyers(_, _, _, _)
get_data_fyers(script, tk, market, depth) ==
    IF script = <<>>
    THEN [returned |-> FALSE, data |-> NoData, tk |-> tk, rounds |-> depth]
    ELSE IF script[1].resp = "candles"
    THEN [returned |-> TRUE, data |-> Data(market), tk |-> tk,
          rounds |-> depth]
    ELSE IF script[1].resp = "invalid_token"
    THEN LET r == refresh_fyers_token(tk, script[1].refresh)
         IN  IF r.ok
             THEN get_data_fyers(Tail(script), r.tk, market, depth + 1)
             ELSE [returned |-> TRUE, data |-> NoData, tk |-> r.tk,
                   rounds |-> depth]
    ELSE [returned |-> TRUE, data |-> NoData, tk |-> tk, rounds |-> depth]

\* get_data_fyers() or get_data_yfinance(), lines 204 and 224: None is
\* falsy, and the truth value of a DataFrame raises ValueError
fetch_or(primary, fallback) ==
    IF primary.none
    THEN [raised |-> FALSE, data |-> fallback,
          fallback |-> IF fallback.none THEN "fail" ELSE "ok"]
    ELSE [raised |-> TRUE, data |-> NoData, fallback |-> "not_queried"]

\* the guard of lines 205 and 225 without its length test
no_valid_data_none_only(d, min_bars) == d.none

\* df is None or len(df) < min_bars, lines 205 and 225
no_valid_data(d, min_bars) == d.none \/ Len(d.close) < min_bars

-----------------------------------------------------------------------------
(* The series the feed can deliver, and compute_signals on each.           *)

Flat(n) == AsColumn([i \in 1..n |-> BaseClose])

\* flat, then one bar down and one bar up
Jump(n) ==
    AsColumn([i \in 1..n |-> IF i = n - 1 THEN BaseClose - 1
                             ELSE IF i = n THEN BaseClose + 2
                             ELSE BaseClose])

FeedSeries ==
    {Jump(STATUS_MIN_BARS - 1), Jump(STATUS_MIN_BARS), Jump(JOB_MIN_BARS - 1),
     Jump(JOB_MIN_BARS), Flat(JOB_MIN_BARS)}

\* what one call of compute_signals returned and sent
Outcome(close, debug, r) ==
    [close |-> close, debug |-> debug, signals |-> r.signals, sent |-> r.sent]

\* compute_signals on every series of the feed, evaluated once
SignalsTable ==
    {Outcome(s, b, compute_signals(Frame(s), b)) :
        s \in FeedSeries, b \in BOOLEAN}

signals_of(close, debug) ==
    CHOOSE e \in SignalsTable : e.close = close /\ e.debug = debug

\* lines 229-241: the text of the daily summary
ema_status_message(close) ==
    LET c     == CloseCol(Frame(close))
        ema5  == EMAIndicator(c, EMA_FAST)
        ema21 == EMAIndicator(c, EMA_SLOW)
        last  == Len(close)
        cond  == IF Gt(ema5[last], ema21[last]) THEN ">" ELSE "<"
        diff  == RSub(ema5[last], ema21[last])
        bias  == IF Gt(diff, FromInt(0)) THEN "Bullish Bias"
                 ELSE "Bearish Bias"
    IN  "Daily EMA Summary: EMA5 " \o cond \o " EMA21, " \o bias

\* the daily summary of every series of the feed, evaluated once
StatusTable ==
    {[close |-> s, msg |-> ema_status_message(s)] : s \in FeedSeries}

status_of(close) == (CHOOSE e \in StatusTable : e.close = close).msg

-----------------------------------------------------------------------------
(* The two scheduled jobs.                                                 *)

\* lines 208-212: the alerts of a cycle are the status line compute_signals
\* sent itself, then one alert per returned signal
alert_signals(f, r) ==
    [raised |-> FALSE, fallback |-> f.fallback,
     bars |-> Len(f.data.close), computed |-> TRUE,
     signals |-> r.signals, sent |-> r.sent \o r.signals]

\* job(), lines 203-212, on what the two sources answer
job(primary, fallback, debug) ==
    LET f == fetch_or(primary, fallback)
    IN  IF f.raised
        THEN [raised |-> TRUE, fallback |-> f.fallback,
              bars |-> Len(primary.close), computed |-> FALSE,
              signals |-> NoResult, sent |-> <<>>]
        ELSE IF no_valid_data(f.data, JOB_MIN_BARS)
        THEN [raised |-> FALSE, fallback |-> f.fallback,
              bars |-> Len(f.data.close), computed |-> FALSE,
              signals |-> NoResult, sent |-> <<>>]
        ELSE alert_signals(f, signals_of(f.data.close, debug))

\* ema_status_alert() after its holiday test, lines 224-242
ema_status_alert(primary, fallback) ==
    LET f == fetch_or(primary, fallback)
    IN  IF f.raised
        THEN [raised |-> TRUE, fallback |-> f.fallback,
              bars |-> Len(primary.close), computed |-> FALSE, sent |-> <<>>]
        ELSE IF no_valid_data(f.data, STATUS_MIN_BARS)
        THEN [raised |-> FALSE, fallback |-> f.fallback,
              bars |-> Len(f.data.close), computed |-> FALSE, sent |-> <<>>]
        ELSE [raised |-> FALSE, fallback |-> f.fallback,
              bars |-> Len(f.data.close), computed |-> TRUE,
              sent |-> <<status_of(f.data.close)>>]

\* a cycle whose call of get_data_fyers has not returned: nothing after
\* line 204 or 224 has run
Pending ==
    [raised |-> FALSE, fallback |-> "not_queried", bars |-> 0,
     computed |-> FALSE, signals |-> NoResult, sent |-> <<>>]

\* what the cycle got from get_data_fyers
Primary(p) ==
    IF ~p.returned THEN "retrying"
    ELSE IF p.data.none THEN "fail" ELSE "ok"

-----------------------------------------------------------------------------
(* Spec: the process from the end of its configuration (line 43) on: the   *)
(* start-up refresh and job (lines 249-250), then the scheduler loop,      *)
(* which runs job every 15 minutes and ema_status_alert at 10:00 each day. *)
(* A frame lives within one cycle only, so df is no state here.            *)

Init ==
    /\ df = Frame(<<>>)
    /\ signals = NoResult
    /\ sink = <<>>
    /\ DEBUG_MODE \in BOOLEAN
    /\ WHATSAPP_URL \in BOOLEAN
    /\ EMAIL_WEBHOOK \in BOOLEAN
    /\ InitTokens
    /\ last_holidays = [date |-> NoDate, list |-> {}]
    /\ today = StartDay
    /\ statusRan \in BOOLEAN
    /\ alive = TRUE
    /\ cycle = Idle

SetTokens(tk) ==
    /\ ACCESS_TOKEN' = tk.access
    /\ REFRESH_TOKEN' = tk.refresh
    /\ cfg' = tk.cfg
    /\ cfgFile' = tk.file

\* line 249
StartupRefresh ==
    /\ alive /\ cycle.op = "none"
    /\ \E o \in RefreshOutcomes :
        /\ SetTokens(refresh_fyers_token(Tokens, o).tk)
        /\ cycle' = [Idle EXCEPT !.op = "refresh", !.date = today]
    /\ UNCHANGED <<df, signals, sink, DEBUG_MODE, WHATSAPP_URL, EMAIL_WEBHOOK, last_holidays, today,
                   statusRan, alive>>

\* line 250, and every later run of job by the scheduler
Job ==
    /\ alive /\ cycle.op # "none" /\ cycle.primary # "retrying"
    /\ \E scripts \in {FyersScripts(ACCESS_TOKEN)}, market \in FeedSeries :
        \E p \in {get_data_fyers(script, Tokens, market, 0) :
                      script \in scripts} :
        \E yf \in (IF p.returned /\ p.data.none THEN {NoData, Data(market)}
                   ELSE {NoData}) :
            \* a series nothing reads is fixed
            /\ (p.data.none /\ yf.none) => market = Flat(JOB_MIN_BARS)
            /\ \E r \in {IF p.returned THEN job(p.data, yf, DEBUG_MODE)
                          ELSE Pending} :
               \E snk \in Deliveries(r.sent, WHATSAPP_URL, EMAIL_WEBHOOK) :
                /\ SetTokens(p.tk)
                /\ signals' = r.signals
                /\ sink' = snk
                /\ alive' = ~r.raised
                /\ cycle' = [op |-> "job", primary |-> Primary(p),
                             fallback |-> r.fallback, bars |-> r.bars,
                             computed |-> r.computed, raised |-> r.raised,
                             date |-> today, rounds |-> p.rounds]
    /\ UNCHANGED <<df, DEBUG_MODE, WHATSAPP_URL, EMAIL_WEBHOOK, last_holidays, today, statusRan>>

\* the 10:00 run of ema_status_alert, lines 217-242
EmaStatus ==
    /\ alive /\ cycle.op \notin {"none", "refresh"} /\ ~statusRan
    /\ cycle.primary # "retrying"
    /\ statusRan' = TRUE
    /\ \E fetch \in HolidayFetches :
        \E h \in {is_market_holiday(today, last_holidays, fetch)} :
            \* the answer of a request that is not made is fixed
            /\ h.fetched \/ fetch = "ok"
            /\ last_holidays' = h.cache
            /\ IF h.closed
               THEN /\ sink' = <<>>
                    /\ alive' = alive
                    /\ cycle' = [op |-> "ema_status", primary |-> "none",
                                 fallback |-> "none", bars |-> 0,
                                 computed |-> FALSE, raised |-> FALSE,
                                 date |-> today, rounds |-> 0]
                    /\ UNCHANGED <<ACCESS_TOKEN, REFRESH_TOKEN, cfg, cfgFile>>
               ELSE \E scripts \in {FyersScripts(ACCESS_TOKEN)},
                       market \in FeedSeries :
                    \E p \in {get_data_fyers(script, Tokens, market, 0) :
                                  script \in scripts} :
                    \E yf \in (IF p.returned /\ p.data.none
                               THEN {NoData, Data(market)} ELSE {NoData}) :
                        /\ (p.data.none /\ yf.none)
                              => market = Flat(JOB_MIN_BARS)
                        /\ \E r \in {IF p.returned
                                      THEN ema_status_alert(p.data, yf)
                                      ELSE Pending} :
                           \E snk \in Deliveries(r.sent, WHATSAPP_URL,
                                                  EMAIL_WEBHOOK) :
                            /\ SetTokens(p.tk)
                            /\ sink' = snk
                            /\ alive' = ~r.raised
                            /\ cycle' = [op |-> "ema_status",
                                         primary |-> Primary(p),
                                         fallback |-> r.fallback,
                                         bars |-> r.bars,
                                         computed |-> r.computed,
                                         raised |-> r.raised,
                                         date |-> today,
                                         rounds |-> p.rounds]
    \* compute_signals is not called in this run
    /\ signals' = NoResult
    /\ UNCHANGED <<df, DEBUG_MODE, WHATSAPP_URL, EMAIL_WEBHOOK, today>>

\* midnight: the loop of lines 254-256 between two runs, nothing in progress
NextDay ==
    /\ alive /\ cycle.op \notin {"none", "refresh"}
    /\ cycle.primary # "retrying"
    /\ statusRan /\ today < MaxDay
    /\ today' = today + 1
    /\ statusRan' = FALSE
    /\ signals' = NoResult
    /\ sink' = <<>>
    /\ cycle' = [Idle EXCEPT !.op = "sleep", !.date = today + 1]
    /\ UNCHANGED <<df, DEBUG_MODE, WHATSAPP_URL, EMAIL_WEBHOOK, ACCESS_TOKEN, REFRESH_TOKEN,
                   cfg, cfgFile, last_holidays, alive>>

Next == StartupRefresh \/ Job \/ EmaStatus \/ NextDay

Spec == Init /\ [][Next]_vars

-----------------------------------------------------------------------------
(* SpecHolidays: is_market_holiday called on any dates in any order, each  *)
(* call meeting any answer of the holiday-list request.  cycle keeps the   *)
(* call: its date, the cache it found, whether it made the request and     *)
(* what the request met.                                                   *)

InitHolidays ==
    /\ df = Frame(<<>>)
    /\ signals = NoResult
    /\ sink = <<>>
    /\ DEBUG_MODE = TRUE
    /\ WHATSAPP_URL = TRUE
    /\ EMAIL_WEBHOOK = TRUE
    /\ InitTokens
    /\ last_holidays = [date |-> NoDate, list |-> {}]
    /\ today = 0
    /\ statusRan = FALSE
    /\ alive = TRUE
    /\ cycle = [op |-> "none", date |-> 0, before |-> last_holidays,
                fetched |-> FALSE, fetch |-> "none", closed |-> FALSE]

\* is_market_holiday(date), lines 51-73
CallIsMarketHoliday ==
    \E date \in 0..MaxDate, fetch \in HolidayFetches :
    \E h \in {is_market_holiday(date, last_holidays, fetch)} :
        \* the answer of a request that is not made is fixed
        /\ h.fetched \/ fetch = "ok"
        /\ last_holidays' = h.cache
        /\ today' = date
        /\ cycle' = [op |-> "is_market_holiday", date |-> date,
                     before |-> last_holidays, fetched |-> h.fetched,
                     fetch |-> IF h.fetched THEN fetch ELSE "none",
                     closed |-> h.closed]
        /\ UNCHANGED <<df, signals, sink, DEBUG_MODE, WHATSAPP_URL, EMAIL_WEBHOOK, ACCESS_TOKEN,
                       REFRESH_TOKEN, cfg, cfgFile, statusRan, alive>>

NextHolidays == CallIsMarketHoliday

SpecHolidays == InitHolidays /\ [][NextHolidays]_vars

-----------------------------------------------------------------------------
(* SpecRepeat: compute_signals called again and again on the same          *)
(* DataFrame object, which from the second call on carries the columns of  *)
(* the call before.  cycle counts the calls made on the frame.             *)

\* lengths of the series the repeated calls are made on
RepeatBars ==
    {1, EMA_SLOW, EMA_SLOW + 1, JOB_MIN_BARS, LOOKBACK + RSI_WINDOW}

\* BaseClose repeated, the last two bars drawn from Closes
RepeatSeries ==
    {AsColumn([i \in 1..n |-> IF i = n THEN y
                              ELSE IF i = n - 1 THEN x ELSE BaseClose]) :
        n \in RepeatBars, x \in Closes, y \in Closes}

InitRepeat ==
    /\ \E s \in RepeatSeries : df = Frame(s)
    /\ signals = NoResult
    /\ sink = <<>>
    /\ DEBUG_MODE \in BOOLEAN
    /\ WHATSAPP_URL \in (IF DEBUG_MODE THEN BOOLEAN ELSE {TRUE})
    /\ EMAIL_WEBHOOK \in (IF DEBUG_MODE THEN BOOLEAN ELSE {TRUE})
    /\ InitTokens
    /\ last_holidays = [date |-> NoDate, list |-> {}]
    /\ today = StartDay
    /\ statusRan = FALSE
    /\ alive = TRUE
    /\ cycle = [op |-> "compute_signals", calls |-> 0]

\* compute_signals(df) on the frame as the call before left it
CallOnSameFrame ==
    /\ cycle.calls < MaxCalls
    /\ \E r \in {compute_signals(df, DEBUG_MODE)} :
        \E snk \in Deliveries(r.sent, WHATSAPP_URL, EMAIL_WEBHOOK) :
            /\ df' = r.df
            /\ signals' = r.signals
            /\ sink' = snk
            /\ cycle' = [cycle EXCEPT !.calls = @ + 1]
    /\ UNCHANGED <<DEBUG_MODE, WHATSAPP_URL, EMAIL_WEBHOOK, ACCESS_TOKEN,
                   REFRESH_TOKEN, cfg, cfgFile, last_holidays, today,
                   statusRan, alive>>

NextRepeat == CallOnSameFrame

SpecRepeat == InitRepeat /\ [][NextRepeat]_vars

-----------------------------------------------------------------------------
(* SpecFlags: compute_signals from line 164 on, called by itself or by     *)
(* job (lines 205-212), on frames whose indicator columns are given.  A    *)
(* series whose RSI 90 bars back is below 100 moves at least 90 bars       *)
(* before its end, and the exact EMA and RSI of such a series have         *)
(* numerators of hundreds of digits; here the values lines 160-162 leave   *)
(* in the frame are drawn directly: every column is undefined before the   *)
(* window of its indicator, and holds a drawn value on the last row, on    *)
(* the row before it (EMAs) or LOOKBACK rows before it (close, RSI), and a *)
(* background value on every other row.  cycle keeps the drawn values and  *)
(* what was run on the frame.                                              *)

\* lengths of the frames
FlagBars ==
    {1, 2, EMA_SLOW, EMA_SLOW + 1, JOB_MIN_BARS - 1, JOB_MIN_BARS, LOOKBACK,
     LOOKBACK + 1, LOOKBACK + RSI_WINDOW - 1, LOOKBACK + RSI_WINDOW}

\* the value of a row that does not exist or on which the indicator is
\* undefined (NaN)
NoLevel == 0

\* values drawn for the last row and the row compared with it
CloseLevels == {10, 12}
RsiLevels   == {30, 70}
Ema5Levels  == {10, 11, 12}
Ema21Levels == {11, 12}

\* values of all other rows: closes outside CloseLevels on either side,
\* RSI outside RsiLevels on either side, EMA5 on either side of EMA21
Backgrounds ==
    {[close |-> 9, rsi |-> 20, ema5 |-> 10, ema21 |-> 11],
     [close |-> 13, rsi |-> 80, ema5 |-> 12, ema21 |-> 11]}

\* the values row `row` of a column can take, the column being defined
\* from row `first` on
LevelsAt(levels, row, first) ==
    IF row >= first THEN levels ELSE {NoLevel}

\* the drawn values of the frames of n rows
FlagInputsOf(n) ==
    {[n     |-> n,
      bg    |-> b,
      close |-> [old |-> co, last |-> cl],
      rsi   |-> [old |-> ro, last |-> rl],
      ema5  |-> [prev |-> ap, last |-> al],
      ema21 |-> [prev |-> bp, last |-> bl]] :
        b  \in Backgrounds,
        co \in LevelsAt(CloseLevels, n - LOOKBACK, 1),
        cl \in CloseLevels,
        ro \in LevelsAt(RsiLevels, n - LOOKBACK, RSI_WINDOW),
        rl \in LevelsAt(RsiLevels, n, RSI_WINDOW),
        ap \in LevelsAt(Ema5Levels, n - 1, EMA_FAST),
        al \in LevelsAt(Ema5Levels, n, EMA_FAST),
        bp \in LevelsAt(Ema21Levels, n - 1, EMA_SLOW),
        bl \in LevelsAt(Ema21Levels, n, EMA_SLOW)}

FlagInputs == UNION {FlagInputsOf(n) : n \in FlagBars}

\* an indicator column of n rows, NaN before row `first`: `last` on row n,
\* `far` on row n - k, bg on the other rows
IndicatorColumn(n, first, k, far, last, bg) ==
    AsColumn([i \in 1..n |-> IF i < first THEN NaN
                             ELSE IF i = n THEN FromInt(last)
                             ELSE IF i = n - k THEN FromInt(far)
                             ELSE FromInt(bg)])

\* the frame after lines 160-162 holding the drawn values
FlagFrame(in) ==
    [Frame(AsColumn([i \in 1..in.n |->
                        IF i = in.n THEN in.close.last
                        ELSE IF i = in.n - LOOKBACK THEN in.close.old
                        ELSE in.bg.close]))
        EXCEPT !.rsi   = IndicatorColumn(in.n, RSI_WINDOW, LOOKBACK,
                                         in.rsi.old, in.rsi.last, in.bg.rsi),
               !.ema5  = IndicatorColumn(in.n, EMA_FAST, 1, in.ema5.prev,
                                         in.ema5.last, in.bg.ema5),
               !.ema21 = IndicatorColumn(in.n, EMA_SLOW, 1, in.ema21.prev,
                                         in.ema21.last, in.bg.ema21)]

InitFlags ==
    /\ \E in \in FlagInputs :
        /\ df = FlagFrame(in)
        /\ cycle = [op |-> "frame", in |-> in]
    /\ signals = NoResult
    /\ sink = <<>>
    /\ DEBUG_MODE \in BOOLEAN
    /\ WHATSAPP_URL \in BOOLEAN
    /\ EMAIL_WEBHOOK \in BOOLEAN
    /\ InitTokens
    /\ last_holidays = [date |-> NoDate, list |-> {}]
    /\ today = StartDay
    /\ statusRan = FALSE
    /\ alive = TRUE

\* compute_signals(df) from line 164 on: the flag columns, the list, and
\* the status line of debug mode
CallSignalLines ==
    /\ cycle.op = "frame"
    /\ \E r \in {signal_lines(df, DEBUG_MODE)} :
        \E snk \in Deliveries(r.sent, WHATSAPP_URL, EMAIL_WEBHOOK) :
            /\ df' = r.df
            /\ signals' = r.signals
            /\ sink' = snk
            /\ cycle' = [cycle EXCEPT !.op = "computed"]
    /\ UNCHANGED <<DEBUG_MODE, WHATSAPP_URL, EMAIL_WEBHOOK, ACCESS_TOKEN,
                   REFRESH_TOKEN, cfg, cfgFile, last_holidays, today,
                   statusRan, alive>>

\* job from line 205 on, the fetch having delivered the frame: a frame
\* shorter than 50 rows ends the cycle at line 207; on any other,
\* compute_signals from line 164 on, then send_alert on every entry of
\* the list (lines 209-212)
AlertOnFrame ==
    /\ cycle.op = "frame"
    /\ IF no_valid_data(Data(df.close), JOB_MIN_BARS)
       THEN /\ cycle' = [cycle EXCEPT !.op = "skipped"]
            /\ UNCHANGED <<df, signals, sink>>
       ELSE \E r \in {signal_lines(df, DEBUG_MODE)} :
            \E a \in {alert_signals([fallback |-> "ok",
                                     data |-> Data(df.close)], r)} :
            \E snk \in Deliveries(a.sent, WHATSAPP_URL, EMAIL_WEBHOOK) :
                /\ df' = r.df
                /\ signals' = r.signals
                /\ sink' = snk
                /\ cycle' = [cycle EXCEPT !.op = "alerted"]
    /\ UNCHANGED <<DEBUG_MODE, WHATSAPP_URL, EMAIL_WEBHOOK, ACCESS_TOKEN,
                   REFRESH_TOKEN, cfg, cfgFile, last_holidays, today,
                   statusRan, alive>>

NextFlags == CallSignalLines \/ AlertOnFrame

SpecFlags == InitFlags /\ [][NextFlags]_vars

-----------------------------------------------------------------------------
(* Properties of compute_signals, checked under SpecSignals.               *)

Range(seq) == {seq[i] : i \in DOMAIN seq}
Called == signals # NoResult
Bars == Len(df.close)
AllSignals == {BULL_CROSS, BEAR_CROSS, BULL_DIV, BEAR_DIV}

\* C1 as stated: compute_signals reports InsufficientHistory for every
\* series of fewer than 50 bars (49 included) and for no series of 50 bars
\* or more.
C1_InsufficientHistoryReported ==
    Called => (signals = INSUFFICIENT <=> Bars < JOB_MIN_BARS)

\* C1 amended: compute_signals has no length check; whatever the length of
\* the series (49 bars as well as 50) it returns a list of fired signals
\* and never reports InsufficientHistory.
C1_NoLengthCheck ==
    Called => signals # INSUFFICIENT /\ Range(signals) \subseteq AllSignals

\* a 49-bar series for which compute_signals returned a fired signal
C1_Witness ==
    Called /\ Bars = JOB_MIN_BARS - 1 /\ BULL_CROSS \in Range(signals)

\* C3: emaBullCross and emaBearCross are never both reported by one call.
C3_CrossesExclusive ==
    Called => ~(BULL_CROSS \in Range(signals) /\ BEAR_CROSS \in Range(signals))

\* a crossover reported from a previous bar on which the two EMAs were
\* defined and equal (both <= and >= hold there)
C3_Witness ==
    /\ Called /\ Bars > EMA_SLOW
    /\ ~df.ema21[Bars - 1].nan
    /\ df.ema5[Bars - 1] = df.ema21[Bars - 1]
    /\ BULL_CROSS \in Range(signals)

\* C8: no divergence flag is reported for a series of at most LOOKBACK bars.
C8_NoDivergenceUpToLookback ==
    (Called /\ Bars <= LOOKBACK) =>
        (BULL_DIV \notin Range(signals) /\ BEAR_DIV \notin Range(signals))

\* a call on exactly LOOKBACK bars whose last close is above the first
\* and whose last RSI is defined
C8_Witness ==
    /\ Called /\ Bars = LOOKBACK
    /\ df.close[Bars] > df.close[1]
    /\ ~df.rsi[Bars].nan /\ Lt(df.rsi[Bars], FromInt(100))

\* what compute_signals returns for the series without its last bar
PrefixSignals ==
    Range(compute_signals(Frame(SubSeq(df.close, 1, Bars - 1)), DEBUG_MODE).signals)

\* C9: a crossover reported at the evaluation anchored at bar k is not
\* reported at the evaluation anchored at bar k+1.
C9_CrossNotRepeated ==
    (Called /\ Bars >= 2) =>
        /\ BULL_CROSS \in PrefixSignals => BULL_CROSS \notin Range(signals)
        /\ BEAR_CROSS \in PrefixSignals => BEAR_CROSS \notin Range(signals)

\* bar k reported the bullish cross and at bar k+1 EMA5 is still above EMA21
C9_Witness ==
    /\ Called /\ Bars >= 2
    /\ Gt(df.ema5[Bars], df.ema21[Bars])
    /\ BULL_CROSS \in PrefixSignals

\* the step is a call of compute_signals
IsCall == signals' # NoResult

\* C4 as stated: a call of compute_signals delivers no alert to any sink
\* and leaves its input series and all global state unchanged, in any
\* configuration.
C4_NoSideEffects ==
    [][IsCall =>
        /\ sink' = <<>>
        /\ df' = df
        /\ UNCHANGED <<DEBUG_MODE, WHATSAPP_URL, EMAIL_WEBHOOK, ACCESS_TOKEN, REFRESH_TOKEN, cfg, cfgFile,
                       last_holidays>>]_vars

\* C4 amended: a call of compute_signals leaves the closes of its input
\* and the token and holiday globals unchanged, but it adds its seven
\* indicator and flag columns to the caller's frame, and when DEBUG_MODE is
\* set it passes one status alert to send_alert, which delivers it on the
\* channels whose URL is configured; with DEBUG_MODE off it passes none.
C4_EffectsOfCall ==
    [][IsCall =>
        /\ df'.close = df.close
        /\ \A name \in {"rsi", "ema5", "ema21", "ema_bull", "ema_bear",
                         "bull_div", "bear_div"} :
               Len(df'[name]) = Len(df.close)
        /\ Len(sink') = IF DEBUG_MODE THEN 1 ELSE 0
        /\ \A i \in 1..Len(sink') : /\ sink'[i].whatsapp => WHATSAPP_URL
                                    /\ sink'[i].email => EMAIL_WEBHOOK
        /\ UNCHANGED <<DEBUG_MODE, WHATSAPP_URL, EMAIL_WEBHOOK, ACCESS_TOKEN, REFRESH_TOKEN, cfg, cfgFile,
                       last_holidays>>]_vars

\* a call in debug mode that delivered its status alert on both channels
\* and left the indicator columns in the frame
C4_Witness ==
    /\ Called /\ DEBUG_MODE /\ Bars >= EMA_SLOW
    /\ Len(sink) = 1 /\ sink[1].whatsapp /\ sink[1].email
    /\ Len(df.rsi) = Bars /\ Len(df.bear_div) = Bars

IsFlat == \A i \in 1..Bars : df.close[i] = df.close[1]

\* C10: on a series of constant close with both EMAs defined on the last
\* bar, ema5 equals ema21, no crossover is reported, and the debug status
\* line and the bias of the daily summary both read Bearish.
C10_ConstantSeries ==
    (Called /\ IsFlat /\ Bars >= EMA_SLOW) =>
        /\ ~df.ema5[Bars].nan /\ ~df.ema21[Bars].nan
        /\ df.ema5[Bars] = df.ema21[Bars]
        /\ BULL_CROSS \notin Range(signals)
        /\ BEAR_CROSS \notin Range(signals)
        /\ DEBUG_MODE => sink[1].msg = "EMA Status: Bearish"
        /\ ema_status_message(df.close)
              = "Daily EMA Summary: EMA5 < EMA21, Bearish Bias"

\* a call in debug mode on a constant series, away from BaseClose, on the
\* first bar that has both EMAs
C10_Witness ==
    /\ Called /\ IsFlat /\ Bars = EMA_SLOW /\ DEBUG_MODE
    /\ df.close[1] # BaseClose
    /\ df.ema21[Bars] = FromInt(df.close[1])

\* C13 as stated: on a series of constant close the RSI(14) is 50 on
\* every bar where it is defined.
C13_FlatRsiIsFifty ==
    (Called /\ IsFlat) =>
        \A i \in 1..Bars : ~df.rsi[i].nan => df.rsi[i] = FromInt(50)

\* C13 amended: on a series of constant close the RSI(14) is undefined on
\* the first 13 bars and 100 on every bar from the 14th on: with average
\* loss zero the indicator reads 100, average gain zero or not.
C13_FlatRsiIsHundred ==
    (Called /\ IsFlat) =>
        \A i \in 1..Bars :
            IF i < RSI_WINDOW THEN df.rsi[i].nan
            ELSE df.rsi[i] = FromInt(100)

\* a call on a constant series, away from BaseClose, long enough for the
\* RSI to be defined on its last bars
C13_Witness ==
    /\ Called /\ IsFlat /\ Bars > RSI_WINDOW
    /\ df.close[1] # BaseClose
    /\ df.rsi[RSI_WINDOW - 1].nan
    /\ df.rsi[Bars] = FromInt(100)

-----------------------------------------------------------------------------
(* Properties of the polling cycles, checked under Spec.                   *)

InCycle == cycle.op \in {"job", "ema_status"} /\ cycle.primary # "none"

MinBars(op) == IF op = "job" THEN JOB_MIN_BARS ELSE STATUS_MIN_BARS

\* C5 as stated: in every cycle the alternate source is queried exactly
\* when the primary fetch failed, and when the primary fetch succeeds the
\* cycle proceeds without error to the indicator computation on the
\* primary's series.
C5_FallbackOnPrimaryFailure ==
    InCycle =>
        /\ cycle.fallback # "not_queried" <=> cycle.primary = "fail"
        /\ cycle.primary = "ok" =>
              /\ ~cycle.raised
              /\ cycle.bars >= MinBars(cycle.op) => cycle.computed

BothFail == cycle.primary = "fail" /\ cycle.fallback = "fail"

ShortSeries == cycle.bars < MinBars(cycle.op)

\* C6: a cycle in which both fetches fail, or the fetched series is shorter
\* than the consumer's minimum (50 bars for job, 21 for ema_status_alert),
\* delivers no alert and runs no indicator computation.
C6_SkippedCycleIsSilent ==
    (InCycle /\ (BothFail \/ ShortSeries)) =>
        /\ sink = <<>>
        /\ ~cycle.computed
        /\ cycle.op = "job" => signals = NoResult

\* a job cycle in debug mode whose fallback delivered one bar less than
\* the minimum, a series on which compute_signals would report a crossover
C6_Witness ==
    /\ cycle.op = "job" /\ DEBUG_MODE
    /\ cycle.primary = "fail" /\ cycle.fallback = "ok"
    /\ cycle.bars = JOB_MIN_BARS - 1
    /\ BULL_CROSS \in Range(signals_of(Jump(JOB_MIN_BARS - 1), TRUE).signals)
    /\ sink = <<>>

MarketClosed(d) == Weekday(d) >= WEEKEND_START \/ d \in NseHolidays

\* C7 as stated: on a Saturday, a Sunday or an exchange trading holiday
\* ema_status_alert delivers no alert, whatever the earlier calls and the
\* outcomes of the holiday-list fetches.
C7_NoSummaryOnClosedDays ==
    (cycle.op = "ema_status" /\ MarketClosed(today)) => sink = <<>>

\* C14 as stated: whatever the outcome of a cycle (primary fetch success
\* or failure, fallback success or failure, insufficient data, signals or
\* none, alert-delivery failure), the cycle ends without terminating the
\* process, so the next scheduled cycle follows.
C14_EveryCycleReturns ==
    cycle.op \in {"job", "ema_status"} => (alive /\ ~cycle.raised)

C16_MemoryMatchesFile ==
    /\ ACCESS_TOKEN = cfgFile.access_token
    /\ REFRESH_TOKEN = cfgFile.refresh_token

-----------------------------------------------------------------------------
(* Properties of repeated calls, checked under SpecRepeat.                 *)

\* the step is a call on a frame an earlier call has been made on
IsRepeatedCall == cycle.calls >= 1 /\ cycle'.calls = cycle.calls + 1

\* C12: a second call of compute_signals on the same frame, which now
\* carries the indicator and flag columns of the first call, returns the
\* identical signal list and leaves every column as the first call left it.
C12_Idempotent ==
    [][IsRepeatedCall => (signals' = signals /\ df' = df)]_vars

\* after the second call on a frame whose first call reported the bearish
\* cross and left its columns in the frame
C12_Witness ==
    /\ cycle.op = "compute_signals" /\ cycle.calls = MaxCalls
    /\ Len(df.ema_bear) = Bars /\ df.ema_bear[Bars]
    /\ ~df.ema5[Bars].nan /\ df.ema5[Bars] # FromInt(df.close[Bars])
    /\ signals = <<BEAR_CROSS>>

-----------------------------------------------------------------------------
(* Properties of the flag lines and the alert loop, checked under          *)
(* SpecFlags.                                                              *)

\* compute_signals has run on the frame, called by itself or by job
FlagsComputed == cycle.op \in {"computed", "alerted"}

\* job has run on a frame of at least 50 rows
Alerted == cycle.op = "alerted"

\* x > y between two drawn values, false when either is undefined
Above(x, y) == x # NoLevel /\ y # NoLevel /\ x > y
\* x <= y between two drawn values, false when either is undefined
NotAbove(x, y) == x # NoLevel /\ y # NoLevel /\ x <= y

\* the four flags by the reference definitions, on the values drawn for
\* the last bar n, for n-1 and for n-LOOKBACK only
RefBullCross ==
    /\ Above(cycle.in.ema5.last, cycle.in.ema21.last)
    /\ NotAbove(cycle.in.ema5.prev, cycle.in.ema21.prev)
RefBearCross ==
    /\ Above(cycle.in.ema21.last, cycle.in.ema5.last)
    /\ NotAbove(cycle.in.ema21.prev, cycle.in.ema5.prev)
RefBullDiv ==
    /\ Above(cycle.in.close.old, cycle.in.close.last)
    /\ Above(cycle.in.rsi.last, cycle.in.rsi.old)
RefBearDiv ==
    /\ Above(cycle.in.close.last, cycle.in.close.old)
    /\ Above(cycle.in.rsi.old, cycle.in.rsi.last)

\* C2: the flags compute_signals reports for the last bar are the
\* reference definitions evaluated at bars n-1, n-2 and n-1-90 (0-based)
\* of the indicator columns, whatever the other bars hold.
C2_FlagsMatchReference ==
    FlagsComputed =>
        /\ (BULL_CROSS \in Range(signals)) <=> RefBullCross
        /\ (BEAR_CROSS \in Range(signals)) <=> RefBearCross
        /\ (BULL_DIV \in Range(signals)) <=> RefBullDiv
        /\ (BEAR_DIV \in Range(signals)) <=> RefBearDiv

\* a bearish crossover and a bullish divergence reported together by a
\* call of compute_signals, on a frame whose background rows would give
\* neither
C2_Witness ==
    /\ cycle.op = "computed" /\ signals = <<BEAR_CROSS, BULL_DIV>>
    /\ cycle.in.bg.ema5 > cycle.in.bg.ema21
    /\ cycle.in.bg.close > cycle.in.close.last

FixedOrder == <<BULL_CROSS, BEAR_CROSS, BULL_DIV, BEAR_DIV>>

\* the flag of a signal on the last row of the frame
FlagSet(s) ==
    \/ s = BULL_CROSS /\ df.ema_bull[Bars]
    \/ s = BEAR_CROSS /\ df.ema_bear[Bars]
    \/ s = BULL_DIV /\ df.bull_div[Bars]
    \/ s = BEAR_DIV /\ df.bear_div[Bars]

\* the true flags in the fixed order
FlagList == SelectSeq(FixedOrder, FlagSet)

\* alerts compute_signals sends itself before job sends the entries
StatusLines == IF DEBUG_MODE THEN 1 ELSE 0

\* the call of send_alert for the i-th entry of the list
EntryAlert(i) == sink[StatusLines + i]

\* C11 as stated: the list holds exactly one entry per true flag in the
\* order emaBullCross, emaBearCross, bullishDivergence, bearishDivergence,
\* and job delivers exactly one alert per entry, in that order, on the
\* channels that are configured.
C11_EveryEntryDelivered ==
    Alerted =>
        /\ signals = FlagList
        /\ Len(sink) = StatusLines + Len(signals)
        /\ \A i \in 1..Len(signals) :
              /\ EntryAlert(i).msg = signals[i]
              /\ WHATSAPP_URL => EntryAlert(i).whatsapp
              /\ EMAIL_WEBHOOK => EntryAlert(i).email

\* C11 amended: the list holds exactly one entry per true flag in the
\* fixed order, and job calls send_alert exactly once per entry, in that
\* order, after the status line compute_signals sent in debug mode; a call
\* reaches a channel only if its URL is configured, and at most once.
C11_OneCallPerEntryInOrder ==
    Alerted =>
        /\ signals = FlagList
        /\ Len(sink) = StatusLines + Len(signals)
        /\ DEBUG_MODE => sink[1].msg \notin AllSignals
        /\ \A i \in 1..Len(signals) : EntryAlert(i).msg = signals[i]
        /\ \A i \in 1..Len(sink) : /\ sink[i].whatsapp => WHATSAPP_URL
                                   /\ sink[i].email => EMAIL_WEBHOOK

\* a cycle in debug mode with two flags true at once, the bullish
\* divergence among them, whose second entry reached the WhatsApp channel
\* and missed the e-mail channel
C11_Witness ==
    /\ Alerted /\ DEBUG_MODE /\ WHATSAPP_URL /\ EMAIL_WEBHOOK
    /\ df.ema_bull[Bars] /\ df.bull_div[Bars]
    /\ signals = <<BULL_CROSS, BULL_DIV>>
    /\ Len(sink) = 3
    /\ sink[2].whatsapp /\ sink[2].email
    /\ sink[3].whatsapp /\ ~sink[3].email

-----------------------------------------------------------------------------
(* Properties of the holiday cache, checked under SpecHolidays.            *)

HolidayCall == cycle.op = "is_market_holiday"

\* the call found a cache stamped within the 7 days up to its date
WithinCachedWeek ==
    /\ cycle.before.date # NoDate
    /\ cycle.date >= cycle.before.date
    /\ cycle.date < cycle.before.date + HOLIDAY_CACHE_DAYS

\* the request was made and did not deliver the holiday list
FetchFailed == cycle.fetched /\ cycle.fetch \in {"error", "no_cm"}

\* C17 as stated: after a successful fetch on date d no call with a date
\* in [d, d+7) fetches again; calls for weekend dates never fetch; and a
\* failed fetch leaves the cached date and list unchanged, so the next
\* weekday call retries the fetch.
C17_CachedWeeklyFailureRetried ==
    HolidayCall =>
        /\ WithinCachedWeek => ~cycle.fetched
        /\ Weekday(cycle.date) >= WEEKEND_START => ~cycle.fetched
        /\ FetchFailed => last_holidays = cycle.before
        /\ (Weekday(cycle.date) < WEEKEND_START /\ ~WithinCachedWeek
              /\ cycle.date >= cycle.before.date) => cycle.fetched

====
